---- MODULE Spec2Model ----
(***************************************************************************)
(* A model of the incremental-build cache engine of moon:                  *)
(*   crates/hasher/src/hasher.rs   TargetHasher                            *)
(*   crates/vcs/src/git.rs         Git (response cache, status parsing)    *)
(* Strings are sequences of one-character strings, ordered bytewise as     *)
(* Rust orders String; a BTreeMap is a function on a finite set of keys,   *)
(* iterated in ascending key order; a Vec is a sequence.                   *)
(***************************************************************************)
EXTENDS Integers, Sequences, FiniteSets, TLC

VARIABLES
    h,        \* the TargetHasher
    log,      \* the accumulation calls made on h since new(), in order
    nhash,    \* to_hash calls made since the last accumulation call
    ret,      \* what the latest of those to_hash calls returned
    repo,     \* the repository: what the subprocess of each command line gives
    cache,    \* Git.cache: command line -> stored output
    readers,  \* the callers holding the cache's read lock
    writer,   \* the caller holding the cache's write lock, or 0
    pc,       \* where each caller of run_command is
    cmd,      \* the command line of each caller's call
    result,   \* what each caller's latest completed call returned
    calls,    \* the calls each caller has made
    late,     \* whether the caller's call began after a successful call for its command line returned
    first,    \* per command line, what the first successful call returned
    returned, \* every <<command line, result>> a call has returned
    execs,    \* per command line, the subprocess executions so far
    records,  \* the records the status or diff subprocess writes, in order
    touched,  \* what the latest touched-files query returned, if any
    tried,    \* the command lines the latest between-revisions query ran, in order
    given,    \* the arguments of the function called
    got       \* what that call returned, if it was made

hvars == <<h, log, nhash, ret>>
gvars == <<repo, cache, readers, writer, pc, cmd, result, calls, late, first, returned, execs>>
fvars == <<given, got>>
svars == <<records, touched, tried, fvars>>
vars == <<hvars, gvars, svars>>

(***************************************************************************)
(* Bounds                                                                  *)
(***************************************************************************)
MaxOps == 3
MaxHashCalls == 2
NumCallers == 2
MaxCalls == 2
MaxRecords == 2
MaxEntries == 2
MaxText == 4
MaxPatterns == 2
MaxFiles == 3
MaxBranch == 5
MaxTree == 2
MaxFairCalls == 1

(***************************************************************************)
(* Strings                                                                 *)
(***************************************************************************)
\* The printable characters in byte order, in three runs: 32..38, 40..95, 97..126.
AsciiLow == <<" ", "!", "\"", "#", "$", "%", "&">>
AsciiMid ==
    <<"(", ")", "*", "+", ",", "-", ".", "/",
      "0", "1", "2", "3", "4", "5", "6", "7", "8", "9", ":", ";", "<", "=", ">", "?",
      "@", "A", "B", "C", "D", "E", "F", "G", "H", "I", "J", "K", "L", "M", "N", "O",
      "P", "Q", "R", "S", "T", "U", "V", "W", "X", "Y", "Z", "[", "\\", "]", "^", "_">>
AsciiHigh ==
    <<"a", "b", "c", "d", "e", "f", "g", "h", "i", "j", "k", "l", "m", "n", "o",
      "p", "q", "r", "s", "t", "u", "v", "w", "x", "y", "z", "{", "|", "}", "~">>

RangeOf(t) == {t[i] : i \in 1..Len(t)}
IndexIn(t, c) == CHOOSE i \in 1..Len(t) : t[i] = c

Chars == RangeOf(AsciiLow) \cup RangeOf(AsciiMid) \cup RangeOf(AsciiHigh)
            \cup {"NUL", "\t", "\n"}

\* The byte of a character: strings compare and hash by their UTF-8 bytes.
Byte[c \in Chars] ==
    IF c = "NUL" THEN 0
    ELSE IF c = "\t" THEN 9
    ELSE IF c = "\n" THEN 10
    ELSE IF c \in RangeOf(AsciiLow) THEN 31 + IndexIn(AsciiLow, c)
    ELSE IF c \in RangeOf(AsciiMid) THEN 39 + IndexIn(AsciiMid, c)
    ELSE 96 + IndexIn(AsciiHigh, c)

\* s < t in the ordering of String (bytewise lexicographic).
LexLess(s, t) ==
    \E i \in 1..Len(t) :
        /\ i <= Len(s) + 1
        /\ \A j \in 1..(i - 1) : s[j] = t[j]
        /\ \/ i = Len(s) + 1
           \/ i <= Len(s) /\ Byte[s[i]] < Byte[t[i]]

RECURSIVE InsertSorted(_, _)
InsertSorted(x, sorted) ==
    IF sorted = <<>> THEN <<x>>
    ELSE IF LexLess(x, Head(sorted)) THEN <<x>> \o sorted
    ELSE <<Head(sorted)>> \o InsertSorted(x, Tail(sorted))

\* Vec<String>::sort
RECURSIVE SortVec(_)
SortVec(v) ==
    IF v = <<>> THEN <<>> ELSE InsertSorted(Head(v), SortVec(Tail(v)))

IsSorted(v) == \A i \in 1..(Len(v) - 1) : ~LexLess(v[i + 1], v[i])

\* The keys of a BTreeMap in iteration order.
RECURSIVE KeysOf(_)
KeysOf(S) ==
    IF S = {} THEN <<>>
    ELSE LET k == CHOOSE x \in S : \A o \in S \ {x} : LexLess(x, o)
         IN <<k>> \o KeysOf(S \ {k})

KeysAsc(tree) == KeysOf(DOMAIN tree)

EmptyMap == <<>>

\* BTreeMap::insert
MapInsert(tree, k, v) ==
    [x \in DOMAIN tree \cup {k} |-> IF x = k THEN v ELSE tree[x]]

\* BTreeMap::extend: every entry of other is inserted, overwriting.
MapExtend(tree, other) ==
    [x \in DOMAIN tree \cup DOMAIN other |->
        IF x \in DOMAIN other THEN other[x] ELSE tree[x]]

\* Option<T>
None == <<>>
Some(v) == <<v>>
IsSome(o) == o # <<>>
Unwrap(o) == o[1]

RECURSIVE Flatten(_)
Flatten(list) ==
    IF list = <<>> THEN <<>> ELSE Head(list) \o Flatten(Tail(list))

(***************************************************************************)
(* TargetHasher                                                            *)
(***************************************************************************)
\* moon_utils::path::standardize_separators
standardize_separators(path) ==
    [i \in 1..Len(path) |-> IF path[i] = "\\" THEN "/" ELSE path[i]]

\* format!("{:?}", v) of a fieldless enum variant of moon_config::tsconfig.
DebugFmt(v) ==
    CASE v = "Es2022" -> <<"E", "s", "2", "0", "2", "2">>
      [] v = "NodeNext" -> <<"N", "o", "d", "e", "N", "e", "x", "t">>
      [] v = "Es2019" -> <<"E", "s", "2", "0", "1", "9">>

new(node_version) ==
    [ command |-> <<>>,
      args |-> <<>>,
      deps |-> <<>>,
      env_vars |-> EmptyMap,
      input_hashes |-> EmptyMap,
      node_version |-> node_version,
      package_dependencies |-> EmptyMap,
      package_dev_dependencies |-> EmptyMap,
      package_peer_dependencies |-> EmptyMap,
      project_deps |-> <<>>,
      target |-> <<>>,
      tsconfig_compiler_options |-> EmptyMap,
      version |-> <<"1">> ]

\* hash_args that pushes the args and does not sort.
hash_args_unsorted(s, passthrough_args) ==
    IF passthrough_args # <<>>
    THEN [s EXCEPT !.args = s.args \o passthrough_args]
    ELSE s

hash_args(s, passthrough_args) ==
    IF passthrough_args # <<>>
    THEN [s EXCEPT !.args = SortVec(s.args \o passthrough_args)]
    ELSE s

RECURSIVE InsertInputs(_, _, _)
InsertInputs(tree, inputs, files) ==
    IF files = <<>> THEN tree
    ELSE InsertInputs(
            MapInsert(tree, standardize_separators(Head(files)), inputs[Head(files)]),
            inputs, Tail(files))

\* hash_inputs inserting the paths as given.
hash_inputs_raw(s, inputs) ==
    [s EXCEPT !.input_hashes = MapExtend(s.input_hashes, inputs)]

hash_inputs(s, inputs) ==
    [s EXCEPT !.input_hashes = InsertInputs(s.input_hashes, inputs, KeysAsc(inputs))]

\* hash_package_json assigning each map instead of extending it.
hash_package_json_replacing(s, package) ==
    [s EXCEPT
        !.package_dependencies =
            IF IsSome(package.dependencies) THEN Unwrap(package.dependencies) ELSE @,
        !.package_dev_dependencies =
            IF IsSome(package.dev_dependencies) THEN Unwrap(package.dev_dependencies) ELSE @,
        !.package_peer_dependencies =
            IF IsSome(package.peer_dependencies) THEN Unwrap(package.peer_dependencies) ELSE @]

\* BTreeMap::extend appending to the value of a key already present.
MapExtendAppending(tree, other) ==
    [x \in DOMAIN tree \cup DOMAIN other |->
        IF x \in DOMAIN other
        THEN (IF x \in DOMAIN tree THEN tree[x] \o other[x] ELSE other[x])
        ELSE tree[x]]

\* hash_package_json with that extend.
hash_package_json_appending(s, package) ==
    [s EXCEPT
        !.package_dependencies =
            IF IsSome(package.dependencies)
            THEN MapExtendAppending(@, Unwrap(package.dependencies)) ELSE @,
        !.package_dev_dependencies =
            IF IsSome(package.dev_dependencies)
            THEN MapExtendAppending(@, Unwrap(package.dev_dependencies)) ELSE @,
        !.package_peer_dependencies =
            IF IsSome(package.peer_dependencies)
            THEN MapExtendAppending(@, Unwrap(package.peer_dependencies)) ELSE @]

hash_package_json(s, package) ==
    [s EXCEPT
        !.package_dependencies =
            IF IsSome(package.dependencies)
            THEN MapExtend(@, Unwrap(package.dependencies)) ELSE @,
        !.package_dev_dependencies =
            IF IsSome(package.dev_dependencies)
            THEN MapExtend(@, Unwrap(package.dev_dependencies)) ELSE @,
        !.package_peer_dependencies =
            IF IsSome(package.peer_dependencies)
            THEN MapExtend(@, Unwrap(package.peer_dependencies)) ELSE @]

hash_project(s, project) ==
    [s EXCEPT !.project_deps = project.dependencies]

\* hash_task adding the task's args to the args already there.
hash_task_merging(s, task) ==
    [s EXCEPT
        !.command = task.command,
        !.args = SortVec(s.args \o task.args),
        !.deps = SortVec(task.deps),
        !.target = task.target]

hash_task(s, task) ==
    [s EXCEPT
        !.command = task.command,
        !.args = SortVec(task.args),
        !.deps = SortVec(task.deps),
        !.target = task.target]

tsconfig_module == <<"m", "o", "d", "u", "l", "e">>
tsconfig_module_resolution ==
    <<"m", "o", "d", "u", "l", "e", "_", "r", "e", "s", "o", "l", "u", "t", "i", "o", "n">>
tsconfig_target == <<"t", "a", "r", "g", "e", "t">>

hash_tsconfig_json(s, tsconfig) ==
    IF IsSome(tsconfig.compiler_options)
    THEN LET co == Unwrap(tsconfig.compiler_options)
             t1 == IF IsSome(co.module)
                   THEN MapInsert(s.tsconfig_compiler_options, tsconfig_module,
                                  DebugFmt(Unwrap(co.module)))
                   ELSE s.tsconfig_compiler_options
             t2 == IF IsSome(co.module_resolution)
                   THEN MapInsert(t1, tsconfig_module_resolution,
                                  DebugFmt(Unwrap(co.module_resolution)))
                   ELSE t1
             t3 == IF IsSome(co.target)
                   THEN MapInsert(t2, tsconfig_target, DebugFmt(Unwrap(co.target)))
                   ELSE t2
         IN [s EXCEPT !.tsconfig_compiler_options = t3]
    ELSE s

\* The closures of to_hash: the bytes each feeds to the digest.
RECURSIVE BtreeBytes(_, _)
BtreeBytes(tree, keys) ==
    IF keys = <<>> THEN <<>>
    ELSE Head(keys) \o tree[Head(keys)] \o BtreeBytes(tree, Tail(keys))

hash_btree(tree) == BtreeBytes(tree, KeysAsc(tree))

hash_vec(list) == Flatten(list)

\* The updates of to_hash with deps hashed before args.
HashedBytesDepsFirst(s) ==
    s.version \o s.node_version
    \o s.command \o hash_vec(s.deps) \o hash_vec(s.args)
    \o hash_btree(s.env_vars) \o hash_btree(s.input_hashes)
    \o hash_vec(s.project_deps)
    \o hash_btree(s.package_dependencies)
    \o hash_btree(s.package_dev_dependencies)
    \o hash_btree(s.package_peer_dependencies)
    \o hash_btree(s.tsconfig_compiler_options)

\* The bytes of a digest that takes the target identifier in as well.
HashedBytesWithTarget(s) ==
    s.version \o s.node_version
    \o s.command \o s.target \o hash_vec(s.args) \o hash_vec(s.deps)
    \o hash_btree(s.env_vars) \o hash_btree(s.input_hashes)
    \o hash_vec(s.project_deps)
    \o hash_btree(s.package_dependencies)
    \o hash_btree(s.package_dev_dependencies)
    \o hash_btree(s.package_peer_dependencies)
    \o hash_btree(s.tsconfig_compiler_options)

\* Every byte to_hash feeds to the Sha256, in the order of the updates.
HashedBytes(s) ==
    s.version \o s.node_version
    \o s.command \o hash_vec(s.args) \o hash_vec(s.deps)
    \o hash_btree(s.env_vars) \o hash_btree(s.input_hashes)
    \o hash_vec(s.project_deps)
    \o hash_btree(s.package_dependencies)
    \o hash_btree(s.package_dev_dependencies)
    \o hash_btree(s.package_peer_dependencies)
    \o hash_btree(s.tsconfig_compiler_options)

\* Sha256 as a collision-free digest: two digests are equal exactly when the
\* bytes fed to them are.
Sha256Hex(bytes) == [sha256 |-> bytes]

to_hash(s) == Sha256Hex(HashedBytes(s))

(***************************************************************************)
(* Git: the response cache of run_command                                  *)
(***************************************************************************)
Callers == 1..NumCallers

\* The command lines of two of run_command's callers: get_local_branch and
\* get_touched_files. The command line is the cache key.
BranchCmd == "git branch --show-current"
StatusCmd == "git status --porcelain --untracked-files -z"
CmdLines == {BranchCmd, StatusCmd}

\* The revisions of a between-revisions query, and the hashes the merge-base
\* subprocess prints for the three candidates.
BaseRevision == <<"m">>
Revision == <<"H", "E", "A", "D">>
OriginOf(base) == <<"o", "r", "i", "g", "i", "n", "/">> \o base
UpstreamOf(base) == <<"u", "p", "s", "t", "r", "e", "a", "m", "/">> \o base
Hash1 == <<"1">>
Hash2 == <<"2">>
Hash3 == <<"3">>

\* The command lines of get_merge_base, one per candidate, with head HEAD.
MergeBaseCmd(candidate) ==
    CASE candidate = BaseRevision -> "git merge-base m HEAD"
      [] candidate = OriginOf(BaseRevision) -> "git merge-base origin/m HEAD"
      [] candidate = UpstreamOf(BaseRevision) -> "git merge-base upstream/m HEAD"

\* The command line of the diff, one per base it may be given.
DiffCmd(base) ==
    CASE base = BaseRevision ->
            "git --no-pager diff --name-status --no-color --relative -z m HEAD"
      [] base = Hash1 ->
            "git --no-pager diff --name-status --no-color --relative -z 1 HEAD"
      [] base = Hash2 ->
            "git --no-pager diff --name-status --no-color --relative -z 2 HEAD"
      [] base = Hash3 ->
            "git --no-pager diff --name-status --no-color --relative -z 3 HEAD"

MergeBaseCmds ==
    { MergeBaseCmd(c) :
        c \in {BaseRevision, OriginOf(BaseRevision), UpstreamOf(BaseRevision)} }
DiffCmds == { DiffCmd(b) : b \in {BaseRevision, Hash1, Hash2, Hash3} }

\* The command line of get_file_tree_hashes for the directory "."
LsTreeCmd == "git ls-tree HEAD -r ."

\* The trim argument each caller passes with its command line.
TrimOf(c) == c = BranchCmd \/ c \in MergeBaseCmds \/ c = LsTreeCmd

Whitespace == {" ", "\t", "\n"}

\* str::trim, as output_to_trimmed_string applies it.
RECURSIVE TrimStart(_)
TrimStart(s) ==
    IF s # <<>> /\ Head(s) \in Whitespace THEN TrimStart(Tail(s)) ELSE s

RECURSIVE TrimEnd(_)
TrimEnd(s) ==
    IF s # <<>> /\ s[Len(s)] \in Whitespace
    THEN TrimEnd(SubSeq(s, 1, Len(s) - 1)) ELSE s

output_to_trimmed_string(stdout) == TrimEnd(TrimStart(stdout))

output_to_string(stdout) == stdout

\* VcsResult<String>
Ok(v) == [ok |-> TRUE, value |-> v]
Err == [ok |-> FALSE, value |-> <<>>]

\* What the subprocess of each command line gives, in a repository that does
\* not change during the run: its standard output, or a failure.
BranchOutputs == { Err, Ok(<<"m", "\n">>) }
StatusOutputs == { Err, Ok(<<" ", "M", " ", "f", "NUL">>) }
Repos ==
    { [c \in CmdLines |-> IF c = BranchCmd THEN b ELSE t] :
        b \in BranchOutputs, t \in StatusOutputs }

\* Git::new, and no caller yet.
GitNew ==
    /\ cache = EmptyMap
    /\ readers = {}
    /\ writer = 0
    /\ pc = [p \in Callers |-> "idle"]
    /\ cmd = [p \in Callers |-> BranchCmd]
    /\ result = [p \in Callers |-> Err]
    /\ calls = [p \in Callers |-> 0]
    /\ late = [p \in Callers |-> FALSE]
    /\ first = [c \in CmdLines |-> None]
    /\ returned = {}
    /\ execs = [c \in CmdLines |-> 0]

\* No function called.
FunIdle == given = <<>> /\ got = None

\* No status query made.
QueryIdle == records = <<>> /\ touched = None /\ tried = <<>>
StatusIdle == QueryIdle /\ FunIdle

\* No Git instance in use.
NoGit == GitNew /\ repo = [c \in CmdLines |-> Err] /\ QueryIdle
GitIdle == NoGit /\ FunIdle

\* No hasher in use.
HasherIdle ==
    /\ h = new(<<>>)
    /\ log = <<>>
    /\ nhash = 0
    /\ ret = [sha256 |-> <<"none">>]


(***************************************************************************)
(* The inputs the accumulation calls are made with                         *)
(***************************************************************************)
NodeVersions == { <<"0", ".", "0", ".", "0">>, <<"1", ".", "0", ".", "0">> }

\* passthrough args
ArgLists == { <<>>, << <<"b">>, <<"a">> >> }

PathFwd == <<"a", "/", "b">>
PathBack == <<"a", "\\", "b">>
Hx == <<"x">>
Hy == <<"y">>
Map1(k, v) == [x \in {k} |-> v]
Map2(k1, v1, k2, v2) == [x \in {k1, k2} |-> IF x = k1 THEN v1 ELSE v2]

\* file -> hash mappings given to hash_inputs
InputMaps ==
    { Map1(PathFwd, Hx), Map1(PathBack, Hy), Map2(PathFwd, Hx, PathBack, Hy) }

PackageJson(deps, dev, peer) ==
    [dependencies |-> deps, dev_dependencies |-> dev, peer_dependencies |-> peer]

Ka == <<"a">>
Kb == <<"b">>
Manifests ==
    { PackageJson(Some(Map2(Ka, <<"a", "b">>, Kb, <<"a">>)), None, None),
      PackageJson(Some(Map2(Ka, <<"a">>, Kb, <<"b", "a">>)), None, None),
      PackageJson(Some(Map1(Ka, <<"a", "b">>)), Some(Map1(Kb, <<"1">>)), None),
      PackageJson(Some(Map1(Kb, <<"a">>)), None, Some(Map1(Ka, <<"2">>))) }

\* Project::get_dependencies, sorted by the project
Projects ==
    { [dependencies |-> << <<"a">> >>], [dependencies |-> << <<"a">>, <<"b">> >>] }

Task(command, args, deps, target) ==
    [command |-> command, args |-> args, deps |-> deps, target |-> target]

Tasks ==
    { Task(<<"a">>, << <<"b">> >>, <<>>, <<"p", ":", "t">>),
      Task(<<"a">>, << <<"c">>, <<"a">> >>, << <<"y">>, <<"x">> >>, <<"p", ":", "t">>),
      Task(<<"a">>, << <<"c">>, <<"a">> >>, << <<"y">>, <<"x">> >>, <<"p", ":", "u">>) }

CompilerOptions(module, module_resolution, target) ==
    [module |-> module, module_resolution |-> module_resolution, target |-> target]

TsConfigs ==
    { [compiler_options |-> None],
      [compiler_options |->
          Some(CompilerOptions(Some("Es2022"), Some("NodeNext"), Some("Es2019")))] }

(***************************************************************************)
(* The hasher's state machine: one instance, any accumulation calls in any *)
(* order, to_hash in between.                                              *)
(***************************************************************************)
NoDigest == [sha256 |-> <<"none">>]

Call(op, arg) == [op |-> op, arg |-> arg]

\* The accumulation call e made on hasher s.
Apply(s, e) ==
    CASE e.op = "hash_args" -> hash_args(s, e.arg)
      [] e.op = "hash_inputs" -> hash_inputs(s, e.arg)
      [] e.op = "hash_package_json" -> hash_package_json(s, e.arg)
      [] e.op = "hash_project" -> hash_project(s, e.arg)
      [] e.op = "hash_task" -> hash_task(s, e.arg)
      [] e.op = "hash_tsconfig_json" -> hash_tsconfig_json(s, e.arg)

\* The hasher after the calls of l, made in order on s.
RECURSIVE Replay(_, _)
Replay(s, l) ==
    IF l = <<>> THEN s ELSE Replay(Apply(s, Head(l)), Tail(l))

InitHasher ==
    /\ \E v \in NodeVersions : h = new(v)
    /\ log = <<>>
    /\ nhash = 0
    /\ ret = NoDigest
    /\ GitIdle

\* An accumulation call (&mut self): the hasher after it, and the record of it.
Accumulate(e) ==
    /\ h' = Apply(h, e)
    /\ log' = Append(log, e)
    /\ nhash' = 0
    /\ ret' = NoDigest
    /\ UNCHANGED <<gvars, svars>>

HashArgs ==
    \E a \in ArgLists :
        /\ Len(log) < MaxOps
        /\ Accumulate(Call("hash_args", a))

HashInputs ==
    \E m \in InputMaps :
        /\ Len(log) < MaxOps
        /\ Accumulate(Call("hash_inputs", m))

HashPackageJson ==
    \E p \in Manifests :
        /\ Len(log) < MaxOps
        /\ Accumulate(Call("hash_package_json", p))

HashProject ==
    \E p \in Projects :
        /\ Len(log) < MaxOps
        /\ Accumulate(Call("hash_project", p))

HashTask ==
    \E t \in Tasks :
        /\ Len(log) < MaxOps
        /\ Accumulate(Call("hash_task", t))

HashTsconfigJson ==
    \E c \in TsConfigs :
        /\ Len(log) < MaxOps
        /\ Accumulate(Call("hash_tsconfig_json", c))

\* to_hash draining args as it hashes them.
ToHashDraining ==
    /\ nhash < MaxHashCalls
    /\ ret' = to_hash(h)
    /\ nhash' = nhash + 1
    /\ h' = [h EXCEPT !.args = <<>>]
    /\ UNCHANGED <<log, gvars, svars>>

\* to_hash takes &self: it returns the digest and writes nothing.
ToHash ==
    /\ nhash < MaxHashCalls
    /\ ret' = to_hash(h)
    /\ nhash' = nhash + 1
    /\ UNCHANGED <<h, log, gvars, svars>>

NextHasher ==
    \/ HashArgs
    \/ HashInputs
    \/ HashPackageJson
    \/ HashProject
    \/ HashTask
    \/ HashTsconfigJson
    \/ ToHash

SpecHasher == InitHasher /\ [][NextHasher]_vars

(***************************************************************************)
(* Properties of the hasher                                                *)
(***************************************************************************)
N == Len(log)
Last == log[N]
Prev == log[N - 1]
\* The hasher as new() made it.
Fresh == new(h.node_version)
\* The hasher before the last call, and before the last two.
Before1 == Replay(Fresh, SubSeq(log, 1, N - 1))
Before2 == Replay(Fresh, SubSeq(log, 1, N - 2))
\* The hasher had the last two calls been made in the other order.
Swapped == Replay(Before2, <<Last, Prev>>)
LastTwo(op1, op2) == N >= 2 /\ Prev.op = op1 /\ Last.op = op2

OptMap(o) == IF IsSome(o) THEN Unwrap(o) ELSE EmptyMap
DepMaps(p) ==
    << OptMap(p.dependencies), OptMap(p.dev_dependencies), OptMap(p.peer_dependencies) >>
\* Manifests whose maps give every common name the same value.
Agree(a, b) ==
    \A i \in 1..3 :
        \A k \in DOMAIN DepMaps(a)[i] \cap DOMAIN DepMaps(b)[i] :
            DepMaps(a)[i][k] = DepMaps(b)[i][k]
Overlap(a, b) ==
    \E i \in 1..3 : DOMAIN DepMaps(a)[i] \cap DOMAIN DepMaps(b)[i] # {}
PackageMaps(s) ==
    << s.package_dependencies, s.package_dev_dependencies, s.package_peer_dependencies >>

\* C1: to_hash does not modify the hasher: a to_hash call leaves every field
\* as it was, and a to_hash call that follows another with no accumulation
\* call in between returns the digest the other returned.
C1_ToHashPure ==
    [][nhash' > nhash =>
        /\ h' = h
        /\ ret' = to_hash(h')
        /\ (nhash > 0 => ret' = ret)]_vars

C1_Witness == nhash >= 2 /\ N >= 1 /\ h.args # <<>> /\ ret = to_hash(h)

\* C2: manifests A and B whose dependency maps have disjoint keys, or common
\* keys with equal values, merged A then B give the digest of B then A, from
\* the same hasher.
C2_MergeOrderIndependent ==
    (LastTwo("hash_package_json", "hash_package_json") /\ Agree(Prev.arg, Last.arg))
        => to_hash(h) = to_hash(Swapped)

C2_Witness ==
    /\ N >= 3
    /\ LastTwo("hash_package_json", "hash_package_json")
    /\ Prev.arg # Last.arg
    /\ Agree(Prev.arg, Last.arg)
    /\ Overlap(Prev.arg, Last.arg)
    /\ PackageMaps(Before2) # PackageMaps(Before1)
    /\ PackageMaps(Before1) # PackageMaps(h)
    /\ to_hash(h) = to_hash(Swapped)

\* C3: hash_package_json is idempotent: the same manifest merged twice in a
\* row gives the three dependency maps and the digest of merging it once.
C3_MergeIdempotent ==
    (LastTwo("hash_package_json", "hash_package_json") /\ Prev.arg = Last.arg)
        => /\ PackageMaps(h) = PackageMaps(Before1)
           /\ to_hash(h) = to_hash(Before1)

C3_Witness ==
    /\ N >= 3
    /\ LastTwo("hash_package_json", "hash_package_json")
    /\ Prev.arg = Last.arg
    /\ PackageMaps(Before2) # PackageMaps(Before1)
    /\ Before2.package_dependencies # EmptyMap
    /\ to_hash(h) = to_hash(Before1)

\* Manifests that give some name different values.
Conflict(a, b) ==
    \E i \in 1..3 :
        \E k \in DOMAIN DepMaps(a)[i] \cap DOMAIN DepMaps(b)[i] :
            DepMaps(a)[i][k] # DepMaps(b)[i][k]

\* C4: when manifests A and B give a name different values, after A then B
\* the stored value is B's, the digest differs from the digest before B was
\* merged, and A then B gives another digest than B then A.
C4_LastWriteWinsChangesDigest ==
    (LastTwo("hash_package_json", "hash_package_json") /\ Conflict(Prev.arg, Last.arg))
        => /\ \A i \in 1..3 :
                \A k \in DOMAIN DepMaps(Last.arg)[i] :
                    PackageMaps(h)[i][k] = DepMaps(Last.arg)[i][k]
           /\ to_hash(h) # to_hash(Before1)
           /\ to_hash(h) # to_hash(Swapped)

\* The paths of an input mapping stay distinct when their separators are
\* standardized.
DistinctPaths(m) ==
    \A f, g \in DOMAIN m :
        standardize_separators(f) = standardize_separators(g) => f = g
\* The mapping with every path spelled with forward slashes.
ForwardSpelling(m) ==
    [p \in {standardize_separators(f) : f \in DOMAIN m} |->
        m[CHOOSE f \in DOMAIN m : standardize_separators(f) = p]]

\* C5: hash_inputs given a path in its backslash spelling leaves the
\* input_hashes and the digest that the forward-slash spelling leaves, and
\* an entry already there for the path is overwritten.
C5_SeparatorsNormalized ==
    (N >= 1 /\ Last.op = "hash_inputs" /\ DistinctPaths(Last.arg))
        => LET fwd == ForwardSpelling(Last.arg)
               other == hash_inputs(Before1, fwd)
           IN /\ h.input_hashes = other.input_hashes
              /\ to_hash(h) = to_hash(other)
              /\ \A p \in DOMAIN fwd : h.input_hashes[p] = fwd[p]
              /\ \A p \in DOMAIN Before1.input_hashes \ DOMAIN fwd :
                    h.input_hashes[p] = Before1.input_hashes[p]
              /\ DOMAIN h.input_hashes = DOMAIN Before1.input_hashes \cup DOMAIN fwd

C5_Witness ==
    /\ N >= 2
    /\ Last.op = "hash_inputs"
    /\ DistinctPaths(Last.arg)
    /\ Last.arg # ForwardSpelling(Last.arg)
    /\ \E p \in DOMAIN Before1.input_hashes \cap DOMAIN ForwardSpelling(Last.arg) :
            Before1.input_hashes[p] # h.input_hashes[p]
    /\ h.input_hashes = hash_inputs(Before1, ForwardSpelling(Last.arg)).input_hashes

\* The content of the fields to_hash reads.
HashedFields(s) ==
    << s.version, s.node_version, s.command, s.args, s.deps, s.env_vars,
       s.input_hashes, s.project_deps, s.package_dependencies,
       s.package_dev_dependencies, s.package_peer_dependencies,
       s.tsconfig_compiler_options >>

AllCalls ==
    {Call("hash_args", a) : a \in ArgLists}
    \cup {Call("hash_inputs", m) : m \in InputMaps}
    \cup {Call("hash_package_json", p) : p \in Manifests}
    \cup {Call("hash_project", p) : p \in Projects}
    \cup {Call("hash_task", t) : t \in Tasks}
    \cup {Call("hash_tsconfig_json", c) : c \in TsConfigs}

\* C6: two hasher states that differ in the content of a hashed field feed
\* different byte sequences to the digest (here: the hasher, and any hasher
\* one call away from new()).
C6_DistinctFieldsDistinctBytes ==
    \A e \in AllCalls :
        LET g == Apply(Fresh, e)
        IN HashedFields(g) # HashedFields(h) => HashedBytes(g) # HashedBytes(h)

\* C7 as claimed: once hash_task and hash_args have both been called, the
\* digest is the same whichever was called first.
C7_TaskArgsOrderIrrelevant ==
    (LastTwo("hash_task", "hash_args") \/ LastTwo("hash_args", "hash_task"))
        => to_hash(h) = to_hash(Swapped)

\* C7, amended: hash_task overwrites args, so after hash_args(extra) then
\* hash_task(task) the hasher is as hash_task(task) alone leaves it; after
\* hash_task(task) then hash_args(extra) args is the sorted task args and
\* extra together; the two orders give the same digest when extra is empty.
C7_TaskOverwritesArgs ==
    /\ LastTwo("hash_args", "hash_task") =>
            /\ h = hash_task(Before2, Last.arg)
            /\ h.args = SortVec(Last.arg.args)
            /\ to_hash(h) = to_hash(hash_task(Before2, Last.arg))
    /\ LastTwo("hash_task", "hash_args") =>
            /\ h.args = SortVec(Prev.arg.args \o Last.arg)
            /\ (Last.arg = <<>> => to_hash(h) = to_hash(Swapped))

C7_Witness ==
    /\ LastTwo("hash_args", "hash_task")
    /\ Prev.arg # <<>>
    /\ Before1.args # h.args
    /\ h = hash_task(Before2, Last.arg)
    /\ to_hash(h) # to_hash(Swapped)

(***************************************************************************)
(* run_command, step by step, for concurrent callers on one Git instance   *)
(***************************************************************************)
InitGit ==
    /\ HasherIdle
    /\ GitNew
    /\ repo \in Repos
    /\ StatusIdle

\* A caller calls run_command with a command line.
CallRunCommand(p) ==
    /\ pc[p] = "idle"
    /\ calls[p] < MaxCalls
    /\ \E c \in CmdLines :
        /\ cmd' = [cmd EXCEPT ![p] = c]
        /\ late' = [late EXCEPT ![p] = IsSome(first[c])]
    /\ calls' = [calls EXCEPT ![p] = @ + 1]
    /\ pc' = [pc EXCEPT ![p] = "read_wait"]
    /\ UNCHANGED <<hvars, svars, repo, cache, readers, writer, result, first, returned, execs>>

\* self.cache.read().await
AcquireRead(p) ==
    /\ pc[p] = "read_wait"
    /\ writer = 0
    /\ readers' = readers \cup {p}
    /\ pc' = [pc EXCEPT ![p] = "reading"]
    /\ UNCHANGED <<hvars, svars, repo, cache, writer, cmd, result, calls, late, first, returned, execs>>

\* The call returns r.
Return(p, r) ==
    /\ result' = [result EXCEPT ![p] = r]
    /\ returned' = returned \cup {<<cmd[p], r>>}
    /\ first' = IF r.ok /\ ~IsSome(first[cmd[p]])
                THEN [first EXCEPT ![cmd[p]] = Some(r.value)]
                ELSE first
    /\ pc' = [pc EXCEPT ![p] = "idle"]

\* The cache is read as if the key were never there.
ReadCacheAlwaysMiss(p) ==
    /\ pc[p] = "reading"
    /\ readers' = readers \ {p}
    /\ pc' = [pc EXCEPT ![p] = "write_wait"]
    /\ UNCHANGED <<hvars, svars, repo, cache, writer, cmd, result, calls, late, first, returned, execs>>

\* The cache is read and the read guard kept while the call goes on to the
\* write lock.
ReadCacheKeepingGuard(p) ==
    /\ pc[p] = "reading"
    /\ IF cmd[p] \in DOMAIN cache
       THEN /\ readers' = readers \ {p}
            /\ Return(p, Ok(cache[cmd[p]]))
            /\ UNCHANGED <<hvars, svars, repo, cache, writer, cmd, calls, late, execs>>
       ELSE /\ pc' = [pc EXCEPT ![p] = "write_wait"]
            /\ UNCHANGED <<hvars, svars, repo, cache, readers, writer, cmd, result, calls,
                           late, first, returned, execs>>

\* Under the read lock: return the stored output if the key is there; the
\* read guard is dropped either way.
ReadCache(p) ==
    /\ pc[p] = "reading"
    /\ readers' = readers \ {p}
    /\ IF cmd[p] \in DOMAIN cache
       THEN /\ Return(p, Ok(cache[cmd[p]]))
            /\ UNCHANGED <<hvars, svars, repo, cache, writer, cmd, calls, late, execs>>
       ELSE /\ pc' = [pc EXCEPT ![p] = "write_wait"]
            /\ UNCHANGED <<hvars, svars, repo, cache, writer, cmd, result, calls, late, first,
                           returned, execs>>

\* A write lock granted while readers hold the lock.
AcquireWriteAmongReaders(p) ==
    /\ pc[p] = "write_wait"
    /\ writer = 0
    /\ writer' = p
    /\ pc' = [pc EXCEPT ![p] = "exec"]
    /\ UNCHANGED <<hvars, svars, repo, cache, readers, cmd, result, calls, late, first, returned, execs>>

\* self.cache.write().await
AcquireWrite(p) ==
    /\ pc[p] = "write_wait"
    /\ writer = 0
    /\ readers = {}
    /\ writer' = p
    /\ pc' = [pc EXCEPT ![p] = "exec"]
    /\ UNCHANGED <<hvars, svars, repo, cache, readers, cmd, result, calls, late, first, returned, execs>>

\* The value run_command makes of the captured stdout.
ValueOf(c, stdout) ==
    IF TrimOf(c) THEN output_to_trimmed_string(stdout) ELSE output_to_string(stdout)

\* The subprocess ends: the output is stored untrimmed, the trimmed one returned.
FinishExecStoringRaw(p) ==
    /\ pc[p] = "exec"
    /\ writer = p
    /\ execs' = [execs EXCEPT ![cmd[p]] = @ + 1]
    /\ writer' = 0
    /\ IF repo[cmd[p]].ok
       THEN /\ cache' = MapInsert(cache, cmd[p], repo[cmd[p]].value)
            /\ Return(p, Ok(ValueOf(cmd[p], repo[cmd[p]].value)))
       ELSE /\ cache' = cache
            /\ Return(p, Err)
    /\ UNCHANGED <<hvars, svars, repo, readers, cmd, calls, late>>

\* The subprocess ends: a failure is stored as an empty output.
FinishExecCachingFailure(p) ==
    /\ pc[p] = "exec"
    /\ writer = p
    /\ execs' = [execs EXCEPT ![cmd[p]] = @ + 1]
    /\ writer' = 0
    /\ IF repo[cmd[p]].ok
       THEN /\ cache' = MapInsert(cache, cmd[p], ValueOf(cmd[p], repo[cmd[p]].value))
            /\ Return(p, Ok(ValueOf(cmd[p], repo[cmd[p]].value)))
       ELSE /\ cache' = MapInsert(cache, cmd[p], <<>>)
            /\ Return(p, Err)
    /\ UNCHANGED <<hvars, svars, repo, readers, cmd, calls, late>>

\* Under the write lock the subprocess ends: on failure the error is
\* returned (the ? operator); else the value is inserted and returned. The
\* write guard is dropped either way.
FinishExec(p) ==
    /\ pc[p] = "exec"
    /\ writer = p
    /\ execs' = [execs EXCEPT ![cmd[p]] = @ + 1]
    /\ writer' = 0
    /\ IF repo[cmd[p]].ok
       THEN /\ cache' = MapInsert(cache, cmd[p], ValueOf(cmd[p], repo[cmd[p]].value))
            /\ Return(p, Ok(ValueOf(cmd[p], repo[cmd[p]].value)))
       ELSE /\ cache' = cache
            /\ Return(p, Err)
    /\ UNCHANGED <<hvars, svars, repo, readers, cmd, calls, late>>

NextGit ==
    \E p \in Callers :
        \/ CallRunCommand(p)
        \/ AcquireRead(p)
        \/ ReadCache(p)
        \/ AcquireWrite(p)
        \/ FinishExec(p)

SpecGit == InitGit /\ [][NextGit]_vars

\* The same callers when every subprocess ends, a caller that reads goes
\* on, and a caller that waits for a lock gets it if the lock stays free
\* for it: the least a fair lock grants.
FairGit ==
    \A p \in Callers :
        /\ WF_vars(ReadCache(p))
        /\ WF_vars(FinishExec(p))
        /\ WF_vars(AcquireRead(p))
        /\ WF_vars(AcquireWrite(p))

\* A caller calls while it has made fewer than MaxFairCalls calls.
CallFair(p) ==
    /\ calls[p] < MaxFairCalls
    /\ CallRunCommand(p)

NextGitFair ==
    \E p \in Callers :
        \/ CallFair(p)
        \/ AcquireRead(p)
        \/ ReadCache(p)
        \/ AcquireWrite(p)
        \/ FinishExec(p)

SpecGitFair == InitGit /\ [][NextGitFair]_vars /\ FairGit

\* C8: once a run_command call for a command line has returned successfully,
\* the cache keeps the value it returned, and every call for that command
\* line begun later returns that value without reaching the write lock or
\* the subprocess.
C8_CacheReuse ==
    /\ \A c \in CmdLines :
        IsSome(first[c]) => c \in DOMAIN cache /\ cache[c] = Unwrap(first[c])
    /\ \A p \in Callers :
        late[p] =>
            /\ pc[p] \in {"read_wait", "reading", "idle"}
            /\ pc[p] = "idle" => result[p] = Ok(Unwrap(first[cmd[p]]))

C8_Witness ==
    \E p \in Callers :
        /\ late[p]
        /\ pc[p] = "idle"
        /\ execs[cmd[p]] = 1
        /\ result[p] = Ok(cache[cmd[p]])
        /\ TrimOf(cmd[p])

\* C9: two concurrent calls for a command line not yet cached may both
\* execute the subprocess (the witness); whatever the interleaving, the
\* calls for a command line return the same result, and the cache holds
\* that value under the key.
C9_DuplicateExecHarmless ==
    \A r1 \in returned :
        /\ \A r2 \in returned : r1[1] = r2[1] => r1[2] = r2[2]
        /\ r1[2].ok => r1[1] \in DOMAIN cache /\ cache[r1[1]] = r1[2].value

C9_Witness ==
    \E c \in CmdLines :
        /\ execs[c] = 2
        /\ \A p \in Callers : pc[p] = "idle" /\ cmd[p] = c /\ calls[p] = 1 /\ result[p].ok
        /\ TrimOf(c)
        /\ cache[c] = result[1].value

(***************************************************************************)
(* Properties of the locking of run_command                                *)
(***************************************************************************)
\* C18: while one run_command call holds the write lock, from before its
\* subprocess starts until its result is inserted, no other call reads the
\* cache or runs a subprocess, for the same or another command line; calls
\* that hold the read lock only may read together.
C18_WriterExcludes ==
    /\ readers = {p \in Callers : pc[p] = "reading"}
    /\ \A p \in Callers : pc[p] = "exec" <=> writer = p
    /\ writer # 0 =>
          /\ readers = {}
          /\ \A q \in Callers \ {writer} : pc[q] \notin {"reading", "exec"}

\* A caller holds the write lock while another, with another command line,
\* waits for the lock.
C18_Witness ==
    /\ writer # 0
    /\ \E q \in Callers \ {writer} :
          /\ pc[q] \in {"read_wait", "write_wait"}
          /\ cmd[q] # cmd[writer]

\* C19: a run_command call whose subprocess fails returns the error, leaves
\* the cache as it was, with no entry for its command line, and releases
\* the write lock; every call for that command line, a later one too,
\* returns only after running the subprocess again.
C19_FailureNotCached ==
    [][\A p \in Callers :
          (pc[p] # "idle" /\ pc'[p] = "idle" /\ ~repo[cmd[p]].ok) =>
              /\ pc[p] = "exec"
              /\ writer = p
              /\ writer' = 0
              /\ execs'[cmd[p]] = execs[cmd[p]] + 1
              /\ result'[p] = Err
              /\ cache' = cache
              /\ cmd[p] \notin DOMAIN cache']_vars

\* One caller has called twice with a command line that fails: the
\* subprocess ran twice.
C19_Witness ==
    \E p \in Callers :
        /\ pc[p] = "idle"
        /\ calls[p] = 2
        /\ \A q \in Callers \ {p} : calls[q] = 0
        /\ ~repo[cmd[p]].ok
        /\ execs[cmd[p]] = 2
        /\ result[p] = Err
        /\ writer = 0
        /\ cmd[p] \notin DOMAIN cache

(***************************************************************************)
(* get_touched_files: the parse of `git status --porcelain -z`             *)
(***************************************************************************)
\* str::split on one character: the pieces between the separators.
RECURSIVE SplitFrom(_, _, _)
SplitFrom(s, sep, piece) ==
    IF s = <<>> THEN <<piece>>
    ELSE IF Head(s) = sep THEN <<piece>> \o SplitFrom(Tail(s), sep, <<>>)
    ELSE SplitFrom(Tail(s), sep, Append(piece, Head(s)))

Split(s, sep) == SplitFrom(s, sep, <<>>)

\* The status codes xy_regex accepts for X and for Y.
XYCodes == {"M", "T", "A", "D", "R", "C", "U", "?", "!", " "}

\* xy_regex without the space that ends it: ^(X)(Y)
xy_regex_is_match_unseparated(line) ==
    Len(line) >= 2 /\ line[1] \in XYCodes /\ line[2] \in XYCodes

\* xy_regex.is_match(line): ^(X)(Y)<space>
xy_regex_is_match(line) ==
    Len(line) >= 3 /\ line[1] \in XYCodes /\ line[2] \in XYCodes /\ line[3] = " "

\* TouchedFiles
TouchedFiles(added, all, deleted, modified, staged, unstaged, untracked) ==
    [added |-> added, all |-> all, deleted |-> deleted, modified |-> modified,
     staged |-> staged, unstaged |-> unstaged, untracked |-> untracked]

TouchedFilesDefault == TouchedFiles({}, {}, {}, {}, {}, {}, {})

\* match x { ... }: the staged status.
MatchX(t, x, file) ==
    CASE x \in {"A", "C"} ->
            [t EXCEPT !.added = @ \cup {file}, !.staged = @ \cup {file}]
      [] x = "D" ->
            [t EXCEPT !.deleted = @ \cup {file}, !.staged = @ \cup {file}]
      [] x \in {"M", "R"} ->
            [t EXCEPT !.modified = @ \cup {file}, !.staged = @ \cup {file}]
      [] OTHER -> t

\* match y with its first three arms filling staged, as the arms of x do.
MatchYStaging(t, y, file) ==
    CASE y \in {"A", "C"} ->
            [t EXCEPT !.added = @ \cup {file}, !.staged = @ \cup {file}]
      [] y = "D" ->
            [t EXCEPT !.deleted = @ \cup {file}, !.staged = @ \cup {file}]
      [] y \in {"M", "R"} ->
            [t EXCEPT !.modified = @ \cup {file}, !.staged = @ \cup {file}]
      [] y = "?" ->
            [t EXCEPT !.untracked = @ \cup {file}]
      [] OTHER -> t

\* match y { ... }: the unstaged status.
MatchY(t, y, file) ==
    CASE y \in {"A", "C"} ->
            [t EXCEPT !.added = @ \cup {file}, !.unstaged = @ \cup {file}]
      [] y = "D" ->
            [t EXCEPT !.deleted = @ \cup {file}, !.unstaged = @ \cup {file}]
      [] y \in {"M", "R"} ->
            [t EXCEPT !.modified = @ \cup {file}, !.unstaged = @ \cup {file}]
      [] y = "?" ->
            [t EXCEPT !.untracked = @ \cup {file}]
      [] OTHER -> t

\* One turn of the loop over the lines.
StatusLine(t, line) ==
    IF line = <<>> THEN t
    ELSE IF ~xy_regex_is_match(line) THEN t
    ELSE LET x == line[1]
             y == line[2]
             file == SubSeq(line, 4, Len(line))
             tx == MatchX(t, x, file)
             ty == MatchY(tx, y, file)
         IN [ty EXCEPT !.all = @ \cup {file}]

RECURSIVE StatusLines(_, _)
StatusLines(t, lines) ==
    IF lines = <<>> THEN t
    ELSE StatusLines(StatusLine(t, Head(lines)), Tail(lines))

\* What get_touched_files makes of the output of the status command.
ParseStatus(output) ==
    IF output = <<>> THEN TouchedFilesDefault
    ELSE StatusLines(TouchedFilesDefault, Split(output, "NUL"))

\* run_command for a single caller, from call to return: the result, the
\* cache after it, and whether the subprocess ran.
RunCommand(c) ==
    IF c \in DOMAIN cache
    THEN [result |-> Ok(cache[c]), cache |-> cache, ran |-> FALSE]
    ELSE IF repo[c].ok
    THEN [result |-> Ok(ValueOf(c, repo[c].value)),
          cache |-> MapInsert(cache, c, ValueOf(c, repo[c].value)),
          ran |-> TRUE]
    ELSE [result |-> Err, cache |-> cache, ran |-> TRUE]

\* The records the status subprocess may write: XY<space><file> for every X
\* and Y of the short format, then records of a second file, the original
\* name of a rename, and lines that are no status record.
FileF == <<"f">>
FileG == <<"g">>
StatusRecord(x, y, file) == <<x, y, " ">> \o file
\* The name foo after the codes <space> and ?, with and without the space
\* that separates the codes from the name.
FileFoo == <<"f", "o", "o">>
UnseparatedRecord(x, y, file) == <<x, y>> \o file
FooRecords ==
    { StatusRecord(" ", "?", FileFoo), UnseparatedRecord(" ", "?", FileFoo) }
FirstRecords ==
    {StatusRecord(x, y, FileF) : x \in XYCodes, y \in XYCodes} \cup FooRecords
MoreRecords ==
    { FileG,
      StatusRecord("M", " ", FileF),
      StatusRecord(" ", "D", FileG),
      StatusRecord("?", "?", FileG),
      <<"M", "M", "g">>,
      <<>> }

RecordLists ==
    {<<>>} \cup
    UNION { { <<r>> \o t : r \in FirstRecords, t \in [1..n -> MoreRecords] } :
            n \in 0..(MaxRecords - 1) }

\* Each record is terminated by a NUL byte.
RECURSIVE StatusStdout(_)
StatusStdout(rs) ==
    IF rs = <<>> THEN <<>> ELSE Head(rs) \o <<"NUL">> \o StatusStdout(Tail(rs))

InitStatus ==
    /\ HasherIdle
    /\ GitNew
    /\ records \in RecordLists
    /\ \E o \in {Err, Ok(StatusStdout(records))} :
            repo = [c \in CmdLines |-> IF c = StatusCmd THEN o ELSE Err]
    /\ touched = None
    /\ tried = <<>>
    /\ FunIdle

GetTouchedFiles ==
    /\ execs[StatusCmd] < MaxCalls
    /\ LET r == RunCommand(StatusCmd)
       IN /\ cache' = r.cache
          /\ execs' = [execs EXCEPT ![StatusCmd] = IF r.ran THEN @ + 1 ELSE @]
          /\ touched' = Some(IF r.result.ok THEN Ok(ParseStatus(r.result.value)) ELSE Err)
    /\ UNCHANGED <<hvars, fvars, tried, records, repo, readers, writer, pc, cmd, result, calls, late,
                   first, returned>>

NextStatus == GetTouchedFiles

SpecStatus == InitStatus /\ [][NextStatus]_vars

\* The status codes of the short format of git status.
ShortFormatCodes == {" ", "M", "T", "A", "D", "R", "C", "U", "?", "!"}
\* A record XY<space><file>.
IsStatusRecord(r) ==
    /\ Len(r) >= 3
    /\ r[1] \in ShortFormatCodes
    /\ r[2] \in ShortFormatCodes
    /\ r[3] = " "
\* The well-formed records among those written, and the file of each.
WellFormed == {i \in 1..Len(records) : IsStatusRecord(records[i])}
FileOf(i) == SubSeq(records[i], 4, Len(records[i]))
FilesWith(X, Y) ==
    {FileOf(i) : i \in {j \in WellFormed : records[j][1] \in X \/ records[j][2] \in Y}}

\* The classification table.
TableOf ==
    TouchedFiles(
        FilesWith({"A", "C"}, {"A", "C"}),
        {FileOf(i) : i \in WellFormed},
        FilesWith({"D"}, {"D"}),
        FilesWith({"M", "R"}, {"M", "R"}),
        FilesWith({"A", "C", "D", "M", "R"}, {}),
        FilesWith({}, {"A", "C", "D", "M", "R"}),
        FilesWith({}, {"?"}))

\* C10: get_touched_files puts the file of every well-formed record
\* XY<space><file> in the sets the table names for its X and its Y, and in
\* all, and in no other set.
C10_StatusTable ==
    (IsSome(touched) /\ Unwrap(touched).ok) => Unwrap(touched).value = TableOf

C10_Witness ==
    /\ IsSome(touched)
    /\ Unwrap(touched).ok
    /\ records = <<StatusRecord("M", " ", FileF)>>
    /\ Unwrap(touched).value =
          TouchedFiles({}, {FileF}, {}, {FileF}, {FileF}, {}, {})

\* C11 as stated: given the record <space>?foo, with no space between the
\* codes and the name, foo is in untracked and in all and in no other set.
C11_UnseparatedUntracked ==
    (/\ IsSome(touched)
     /\ Unwrap(touched).ok
     /\ records = <<UnseparatedRecord(" ", "?", FileFoo)>>)
    => Unwrap(touched).value =
          TouchedFiles({}, {FileFoo}, {}, {}, {}, {}, {FileFoo})

\* C11 amended: given the record <space>?<space>foo, foo is in untracked and
\* in all and in no other set; the record <space>?foo, which lacks the
\* separating space, is skipped and puts foo in no set.
C11_SeparatedUntracked ==
    (IsSome(touched) /\ Unwrap(touched).ok) =>
        /\ records = <<StatusRecord(" ", "?", FileFoo)>> =>
              Unwrap(touched).value =
                  TouchedFiles({}, {FileFoo}, {}, {}, {}, {}, {FileFoo})
        /\ records = <<UnseparatedRecord(" ", "?", FileFoo)>> =>
              Unwrap(touched).value = TouchedFilesDefault

C11_Witness ==
    /\ IsSome(touched)
    /\ Unwrap(touched).ok
    /\ records = <<StatusRecord(" ", "?", FileFoo)>>
    /\ FileFoo \in Unwrap(touched).value.untracked
    /\ FileFoo \in Unwrap(touched).value.all

(***************************************************************************)
(* get_touched_files_between_revisions: the merge base, then the parse of  *)
(* `git diff --name-status -z`                                             *)
(***************************************************************************)
\* run_command for a single caller on the cache cch, from call to return.
RunCommandIn(cch, c) ==
    IF c \in DOMAIN cch
    THEN [result |-> Ok(cch[c]), cache |-> cch, ran |-> FALSE]
    ELSE IF repo[c].ok
    THEN [result |-> Ok(ValueOf(c, repo[c].value)),
          cache |-> MapInsert(cch, c, ValueOf(c, repo[c].value)),
          ran |-> TRUE]
    ELSE [result |-> Err, cache |-> cch, ran |-> TRUE]

\* The candidates with origin/<base> tried before base.
CandidatesOriginFirst(base) == <<OriginOf(base), base, UpstreamOf(base)>>

\* let candidates = [base, origin/<base>, upstream/<base>]
Candidates(base) == <<base, OriginOf(base), UpstreamOf(base)>>

\* The loop over the candidates: the first whose run_command is Ok ends it.
\* ran is the command lines given to run_command so far.
RECURSIVE TryCandidates(_, _, _)
TryCandidates(cch, cands, ran) ==
    IF cands = <<>>
    THEN [found |-> FALSE, value |-> <<>>, cache |-> cch, tried |-> ran]
    ELSE LET c == MergeBaseCmd(Head(cands))
             r == RunCommandIn(cch, c)
         IN IF r.result.ok
            THEN [found |-> TRUE, value |-> r.result.value, cache |-> r.cache,
                  tried |-> Append(ran, c)]
            ELSE TryCandidates(r.cache, Tail(cands), Append(ran, c))

\* get_merge_base(base, head), always Ok: the value, the cache after it and
\* the command lines it ran.
get_merge_base(cch, base) ==
    LET t == TryCandidates(cch, Candidates(base), <<>>)
    IN [value |-> IF t.found THEN t.value ELSE base,
        cache |-> t.cache,
        tried |-> t.tried]

Digits == {"0", "1", "2", "3", "4", "5", "6", "7", "8", "9"}

\* x_with_score_regex.is_match(line): ^(C|M|R)(\d{3})$
x_with_score_regex_is_match(line) ==
    /\ Len(line) = 4
    /\ line[1] \in {"C", "M", "R"}
    /\ \A i \in 2..4 : line[i] \in Digits

\* x_regex.is_match(line): ^(A|D|M|T|U|X)$
x_regex_is_match(line) ==
    Len(line) = 1 /\ line[1] \in {"A", "D", "M", "T", "U", "X"}

\* match x { ... } on the first character of last_status.
MatchLastStatus(t, x, file) ==
    CASE x \in {"A", "C"} ->
            [t EXCEPT !.added = @ \cup {file}, !.staged = @ \cup {file}]
      [] x = "D" ->
            [t EXCEPT !.deleted = @ \cup {file}, !.staged = @ \cup {file}]
      [] x \in {"M", "R"} ->
            [t EXCEPT !.modified = @ \cup {file}, !.staged = @ \cup {file}]
      [] OTHER -> t

\* One turn of the loop that leaves the file out of all.
DiffLineNotInAll(st, line) ==
    IF line = <<>> THEN st
    ELSE IF x_with_score_regex_is_match(line) \/ x_regex_is_match(line)
    THEN [st EXCEPT !.last_status = line[1]]
    ELSE [st EXCEPT !.t = MatchLastStatus(st.t, st.last_status, line)]

\* One turn of the loop over the lines; st holds the sets and last_status.
DiffLine(st, line) ==
    IF line = <<>> THEN st
    ELSE IF x_with_score_regex_is_match(line) \/ x_regex_is_match(line)
    THEN [st EXCEPT !.last_status = line[1]]
    ELSE LET tx == MatchLastStatus(st.t, st.last_status, line)
         IN [st EXCEPT !.t = [tx EXCEPT !.all = @ \cup {line}]]

RECURSIVE DiffLines(_, _)
DiffLines(st, lines) ==
    IF lines = <<>> THEN st
    ELSE DiffLines(DiffLine(st, Head(lines)), Tail(lines))

\* What get_touched_files_between_revisions makes of the output of the diff.
ParseDiff(output) ==
    IF output = <<>> THEN TouchedFilesDefault
    ELSE LET st == DiffLines([t |-> TouchedFilesDefault, last_status |-> "A"],
                             Split(output, "NUL"))
         IN TouchedFiles(st.t.added, st.t.all, st.t.deleted, st.t.modified,
                         st.t.staged, {}, {})

\* What the diff subprocess may write: entries of a status token and one
\* file name, or of a scored copy or rename token and two file names, each
\* token and name a record of its own. One of the files is named D.
FileD == <<"D">>
DiffStatuses == { <<"A">>, <<"D">>, <<"M">>, <<"T">>, <<"X">>, <<"M", "0", "9", "5">> }
PairStatuses == { <<"C", "0", "7", "5">>, <<"R", "1", "0", "0">> }
DiffEntries ==
    { <<x, f>> : x \in DiffStatuses, f \in {FileF, FileG, FileD} } \cup
    { <<x, FileF, FileG>> : x \in PairStatuses } \cup
    { <<x, FileD, FileF>> : x \in PairStatuses }
DiffRecordLists ==
    UNION { { Flatten(es) : es \in [1..n -> DiffEntries] } : n \in 0..MaxEntries }

\* The command lines of a between-revisions query.
DiffCmdLines == CmdLines \cup MergeBaseCmds \cup DiffCmds

\* The repository of a between-revisions query: which merge-base candidates
\* resolve, and whether the diff succeeds; its output is the records.
DiffRepo(resolves, stdout) ==
    [c \in DiffCmdLines |->
        CASE c = MergeBaseCmd(BaseRevision) ->
                IF resolves[1] THEN Ok(Hash1 \o <<"\n">>) ELSE Err
          [] c = MergeBaseCmd(OriginOf(BaseRevision)) ->
                IF resolves[2] THEN Ok(Hash2 \o <<"\n">>) ELSE Err
          [] c = MergeBaseCmd(UpstreamOf(BaseRevision)) ->
                IF resolves[3] THEN Ok(Hash3 \o <<"\n">>) ELSE Err
          [] c \in DiffCmds -> stdout
          [] OTHER -> Err]

InitDiff ==
    /\ HasherIdle
    /\ GitNew
    /\ records \in DiffRecordLists
    /\ \E resolves \in [1..3 -> BOOLEAN], o \in {Err, Ok(StatusStdout(records))} :
            repo = DiffRepo(resolves, o)
    /\ touched = None
    /\ tried = <<>>
    /\ FunIdle

GetTouchedFilesBetweenRevisions ==
    /\ LET base == get_merge_base(cache, BaseRevision)
           r == RunCommandIn(base.cache, DiffCmd(base.value))
       IN /\ cache' = r.cache
          /\ tried' = Append(base.tried, DiffCmd(base.value))
          /\ touched' = Some(IF r.result.ok THEN Ok(ParseDiff(r.result.value)) ELSE Err)
    /\ UNCHANGED <<hvars, fvars, records, repo, readers, writer, pc, cmd, result, calls,
                   late, first, returned, execs>>

NextDiff == GetTouchedFilesBetweenRevisions

SpecDiff == InitDiff /\ [][NextDiff]_vars

(***************************************************************************)
(* Both touched-files queries on one Git instance, each given any of the   *)
(* outputs above                                                           *)
(***************************************************************************)
InitTouched ==
    /\ HasherIdle
    /\ GitNew
    /\ records \in RecordLists \cup DiffRecordLists
    /\ \E resolved \in BOOLEAN, o \in {Err, Ok(StatusStdout(records))} :
            repo = [c \in DiffCmdLines |->
                      IF c = StatusCmd THEN o
                      ELSE DiffRepo([i \in 1..3 |-> resolved /\ i = 1], o)[c]]
    /\ touched = None
    /\ tried = <<>>
    /\ FunIdle

NextTouched == NextStatus \/ NextDiff

SpecTouched == InitTouched /\ [][NextTouched]_vars

TouchedSets(t) == {t.added, t.deleted, t.modified, t.untracked, t.staged, t.unstaged}

\* C12: in every TouchedFiles that get_touched_files or
\* get_touched_files_between_revisions returns, each of added, deleted,
\* modified, untracked, staged and unstaged is a subset of all.
C12_SubsetsOfAll ==
    (IsSome(touched) /\ Unwrap(touched).ok) =>
        \A set \in TouchedSets(Unwrap(touched).value) :
            set \subseteq Unwrap(touched).value.all

\* A between-revisions query has returned an added file (the status parse of
\* the same output finds no record in it).
C12_Witness ==
    /\ IsSome(touched)
    /\ Unwrap(touched).ok
    /\ tried # <<>>
    /\ records = << <<"A">>, FileF >>
    /\ Unwrap(touched).value = TouchedFiles({FileF}, {FileF}, {}, {}, {FileF}, {}, {})

(***************************************************************************)
(* glob.rs: is_glob                                                        *)
(***************************************************************************)
Min(a, b) == IF a < b THEN a ELSE b

\* str::find for one character: the index of its first occurrence, from 0.
Find(value, c) ==
    (CHOOSE i \in 1..Len(value) :
        value[i] = c /\ \A j \in 1..(i - 1) : value[j] # c) - 1

\* str::contains for one character.
Contains(value, c) == \E i \in 1..Len(value) : value[i] = c

\* value.contains("**")
ContainsDoubleStar(value) ==
    \E i \in 1..(Len(value) - 1) : value[i] = "*" /\ value[i + 1] = "*"

\* The closure is_escaped. It owns the iterator value.bytes(), of which
\* consumed elements are gone: nth(index - 1) gives the element index - 1
\* places after those and consumes up to it.
is_escaped(value, consumed, index) ==
    IF index = 0
    THEN [escaped |-> FALSE, consumed |-> consumed]
    ELSE LET at == consumed + index
         IN [escaped |-> at <= Len(value) /\ value[at] = "\\",
             consumed |-> Min(Len(value), at)]

single_values == <<"*", "?", "!">>
paired_values == << <<"{", "}">>, <<"[", "]">> >>

\* for single in single_values: found when one is present and not escaped.
RECURSIVE CheckSingles(_, _, _)
CheckSingles(value, consumed, singles) ==
    IF singles = <<>> THEN [found |-> FALSE, consumed |-> consumed]
    ELSE IF ~Contains(value, Head(singles))
    THEN CheckSingles(value, consumed, Tail(singles))
    ELSE LET e == is_escaped(value, consumed, Find(value, Head(singles)))
         IN IF ~e.escaped THEN [found |-> TRUE, consumed |-> e.consumed]
            ELSE CheckSingles(value, e.consumed, Tail(singles))

\* for (open, close) in paired_values
RECURSIVE CheckPairs(_, _, _)
CheckPairs(value, consumed, pairs) ==
    IF pairs = <<>> THEN [found |-> FALSE, consumed |-> consumed]
    ELSE IF ~Contains(value, Head(pairs)[1]) \/ ~Contains(value, Head(pairs)[2])
    THEN CheckPairs(value, consumed, Tail(pairs))
    ELSE LET e == is_escaped(value, consumed, Find(value, Head(pairs)[1]))
         IN IF ~e.escaped THEN [found |-> TRUE, consumed |-> e.consumed]
            ELSE CheckPairs(value, e.consumed, Tail(pairs))

is_glob(value) ==
    IF ContainsDoubleStar(value) THEN TRUE
    ELSE LET s == CheckSingles(value, 0, single_values)
         IN IF s.found THEN TRUE
            ELSE CheckPairs(value, s.consumed, paired_values).found

\* The texts is_glob is given.
GlobChars == {"*", "?", "!", "\\", "a", "{", "}", "[", "]"}
\* Longer texts of braces, brackets and backslashes only.
BracketChars == {"\\", "{", "}", "[", "]"}
BracketTexts ==
    UNION { [1..n -> BracketChars] : n \in (MaxText + 1)..(MaxText + 2) }
Texts == UNION { [1..n -> GlobChars] : n \in 0..MaxText } \cup BracketTexts

InitGlob ==
    /\ HasherIdle
    /\ NoGit
    /\ given \in Texts
    /\ got = None

IsGlob ==
    /\ got = None
    /\ got' = Some(is_glob(given))
    /\ UNCHANGED <<hvars, gvars, records, touched, tried, given>>

NextGlob == IsGlob

SpecGlob == InitGlob /\ [][NextGlob]_vars

\* The first occurrence of c in value is not immediately preceded by a backslash.
FirstUnescaped(value, c) ==
    /\ Contains(value, c)
    /\ LET i == Find(value, c) + 1
       IN i = 1 \/ value[i - 1] # "\\"

\* C13: for a text without a double asterisk and without brace or bracket
\* characters, is_glob is true exactly when one of * ? ! occurs in the text
\* with its first occurrence not immediately preceded by a backslash, each
\* escape check made against the text itself.
C13_SinglesCheckedAgainstText ==
    (/\ IsSome(got)
     /\ ~ContainsDoubleStar(given)
     /\ \A c \in {"{", "}", "[", "]"} : ~Contains(given, c))
    => (Unwrap(got) <=> \E c \in {"*", "?", "!"} : FirstUnescaped(given, c))

(***************************************************************************)
(* glob.rs: split_patterns and walk                                        *)
(***************************************************************************)
\* Glob matching of a pattern of literal characters, * (any characters but
\* the separator) and a leading **/ (any directories, none included)
\* against a path relative to the directory walked.
RECURSIVE GlobMatch(_, _)
GlobMatch(p, path) ==
    IF p = <<>> THEN path = <<>>
    ELSE IF Len(p) >= 3 /\ SubSeq(p, 1, 3) = <<"*", "*", "/">>
    THEN \/ GlobMatch(SubSeq(p, 4, Len(p)), path)
         \/ \E i \in 1..Len(path) :
                path[i] = "/" /\ GlobMatch(p, SubSeq(path, i + 1, Len(path)))
    ELSE IF Head(p) = "*"
    THEN \E k \in 0..Len(path) :
            /\ \A j \in 1..k : path[j] # "/"
            /\ GlobMatch(Tail(p), SubSeq(path, k + 1, Len(path)))
    ELSE path # <<>> /\ Head(path) = Head(p) /\ GlobMatch(Tail(p), Tail(path))

\* split_patterns: the expressions and the negations, their prefix stripped.
RECURSIVE split_patterns(_)
split_patterns(patterns) ==
    IF patterns = <<>> THEN [expressions |-> <<>>, negations |-> <<>>]
    ELSE LET pattern == Head(patterns)
             rest == split_patterns(Tail(patterns))
         IN IF pattern # <<>> /\ Head(pattern) = "!"
            THEN [rest EXCEPT !.negations = <<Tail(pattern)>> \o @]
            ELSE IF pattern # <<>> /\ Head(pattern) = "/"
            THEN [rest EXCEPT !.expressions = <<Tail(pattern)>> \o @]
            ELSE [rest EXCEPT !.expressions = <<pattern>> \o @]

\* negation.target(&e).is_some()
Negated(negations, path) ==
    \E i \in 1..Len(negations) : GlobMatch(negations[i], path)

\* e.into_path(): the path of the entry, under base_dir.
BaseDir == <<"r">>
IntoPath(path) == BaseDir \o <<"/">> \o path

\* The entries glob.walk_with_behavior yields under base_dir, in the order
\* of their names: the files that match the glob. The entry of an
\* unreadable file is an Err.
WalkWithBehavior(tree, glob) == KeysOf({f \in tree : GlobMatch(glob, f)})

\* The inner loop of walk: the paths pushed for one glob.
RECURSIVE PushEntries(_, _, _)
PushEntries(entries, unreadable, negations) ==
    IF entries = <<>> THEN <<>>
    ELSE LET e == Head(entries)
             rest == PushEntries(Tail(entries), unreadable, negations)
         IN IF e \in unreadable THEN rest
            ELSE IF Negated(negations, e) THEN rest
            ELSE <<IntoPath(e)>> \o rest

\* walk that does not filter the negated entries out.
RECURSIVE WalkGlobsUnfiltered(_, _, _, _)
WalkGlobsUnfiltered(tree, unreadable, globs, negations) ==
    IF globs = <<>> THEN <<>>
    ELSE PushEntries(WalkWithBehavior(tree, Head(globs)), unreadable, <<>>)
            \o WalkGlobsUnfiltered(tree, unreadable, Tail(globs), negations)

\* The outer loop of walk.
RECURSIVE WalkGlobs(_, _, _, _)
WalkGlobs(tree, unreadable, globs, negations) ==
    IF globs = <<>> THEN <<>>
    ELSE PushEntries(WalkWithBehavior(tree, Head(globs)), unreadable, negations)
            \o WalkGlobs(tree, unreadable, Tail(globs), negations)

\* walk(base_dir, patterns), base_dir holding the files of tree.
walk(tree, unreadable, patterns) ==
    LET split == split_patterns(patterns)
    IN WalkGlobs(tree, unreadable, split.expressions, split.negations)

\* The files under base_dir and the patterns walk is given.
FileATs == <<"a", ".", "t", "s">>
FileATestTs == <<"a", ".", "t", "e", "s", "t", ".", "t", "s">>
FileDBTs == <<"d", "/", "b", ".", "t", "s">>
FileCJs == <<"c", ".", "j", "s">>
WalkFiles == {FileATs, FileATestTs, FileDBTs, FileCJs}

PatternTs == <<"*", "*", "/", "*", ".", "t", "s">>
PatternNotTestTs == <<"!", "*", "*", "/", "*", ".", "t", "e", "s", "t", ".", "t", "s">>
PatternSlashATs == <<"/", "a", ".", "t", "s">>
PatternJs == <<"*", ".", "j", "s">>
PatternNotDTs == <<"!", "d", "/", "*", ".", "t", "s">>
WalkPatterns == {PatternTs, PatternNotTestTs, PatternSlashATs, PatternJs, PatternNotDTs}

InitWalk ==
    /\ HasherIdle
    /\ NoGit
    /\ \E tree \in SUBSET WalkFiles :
       \E unreadable \in SUBSET tree :
       \E patterns \in UNION { [1..n -> WalkPatterns] : n \in 0..MaxPatterns } :
            given = [tree |-> tree, unreadable |-> unreadable, patterns |-> patterns]
    /\ got = None

Walk ==
    /\ got = None
    /\ got' = Some(walk(given.tree, given.unreadable, given.patterns))
    /\ UNCHANGED <<hvars, gvars, records, touched, tried, given>>

NextWalk == Walk

SpecWalk == InitWalk /\ [][NextWalk]_vars

\* The positive patterns and the negation patterns of a list, and the files
\* of a set that match a positive pattern and no negation pattern.
Positives(patterns) ==
    {patterns[i] : i \in {j \in 1..Len(patterns) : Head(patterns[j]) # "!"}}
Negatives(patterns) ==
    {Tail(patterns[i]) : i \in {j \in 1..Len(patterns) : Head(patterns[j]) = "!"}}
PatternMatches(pattern, f) ==
    GlobMatch(IF Head(pattern) = "/" THEN Tail(pattern) ELSE pattern, f)
Wanted(files, patterns) ==
    {f \in files :
        /\ \E q \in Positives(patterns) : PatternMatches(q, f)
        /\ \A n \in Negatives(patterns) : ~GlobMatch(n, f)}

\* C14 as stated: walk returns only paths that match a positive pattern and
\* no negation pattern, and every such file under base_dir.
C14_EveryMatchReturned ==
    IsSome(got) =>
        RangeOf(Unwrap(got)) = {IntoPath(f) : f \in Wanted(given.tree, given.patterns)}

\* C14 amended: walk returns only paths that match a positive pattern and no
\* negation pattern, and every such file under base_dir whose entry the
\* walk reads without an error; with **/*.ts and !**/*.test.ts over a.ts and
\* a.test.ts, both readable, it returns a.ts and not a.test.ts.
C14_EveryReadableMatchReturned ==
    IsSome(got) =>
        /\ RangeOf(Unwrap(got)) =
              {IntoPath(f) : f \in Wanted(given.tree \ given.unreadable, given.patterns)}
        /\ (/\ given.tree = {FileATs, FileATestTs}
            /\ given.unreadable = {}
            /\ given.patterns = <<PatternTs, PatternNotTestTs>>)
           => Unwrap(got) = <<IntoPath(FileATs)>>

C14_Witness ==
    /\ IsSome(got)
    /\ given.tree = {FileATs, FileATestTs}
    /\ given.unreadable = {}
    /\ given.patterns = <<PatternTs, PatternNotTestTs>>
    /\ Unwrap(got) = <<IntoPath(FileATs)>>

(***************************************************************************)
(* git.rs: get_file_hashes                                                 *)
(***************************************************************************)
\* [String]::join
RECURSIVE Join(_, _)
Join(list, sep) ==
    IF list = <<>> THEN <<>>
    ELSE IF Len(list) = 1 THEN Head(list)
    ELSE Head(list) \o <<sep>> \o Join(Tail(list), sep)

\* The files of the working directory and the hash of the content of each;
\* two of them have the same content.
FileDQ == <<"d", "/", "q">>
FileAB == <<"a", " ", "b">>
HashedFiles == {FileF, FileG, FileDQ}
HashOf(file) ==
    CASE file = FileF -> <<"2", "5", "7">>
      [] file = FileG -> <<"1", "0", "0">>
      [] file = FileDQ -> <<"2", "5", "7">>
      [] file = FileAB -> <<"5", "8", "9">>

\* git hash-object --stdin-paths: one line of standard input is one path,
\* and one line of standard output, in the same order, is its hash.
RECURSIVE HashLines(_)
HashLines(paths) ==
    IF paths = <<>> THEN <<>>
    ELSE IF Head(paths) = <<>> THEN HashLines(Tail(paths))
    ELSE HashOf(Head(paths)) \o <<"\n">> \o HashLines(Tail(paths))

HashObject(stdin) == HashLines(Split(stdin, "\n"))

\* is_file_ignored(file), ignored being the paths the ignore rules match.
is_file_ignored(ignored, file) == file \in ignored

\* for file in files: the files not ignored, in order.
RECURSIVE Objects(_, _)
Objects(ignored, files) ==
    IF files = <<>> THEN <<>>
    ELSE IF ~is_file_ignored(ignored, Head(files))
    THEN <<Head(files)>> \o Objects(ignored, Tail(files))
    ELSE Objects(ignored, Tail(files))

\* for (index, hash) in output.split('\n').enumerate(), from index on, the
\* keys taken from the list named.
RECURSIVE InsertHashes(_, _, _, _)
InsertHashes(map, names, hashes, index) ==
    IF hashes = <<>> THEN map
    ELSE IF Head(hashes) # <<>>
    THEN InsertHashes(MapInsert(map, names[index + 1], Head(hashes)), names,
                      Tail(hashes), index + 1)
    ELSE InsertHashes(map, names, Tail(hashes), index + 1)

\* get_file_hashes that takes the key of a hash from files, not from objects.
get_file_hashes_keyed_by_files(ignored, fails, files) ==
    LET objects == Objects(ignored, files)
        output == output_to_trimmed_string(HashObject(Join(objects, "\n")))
    IN IF fails THEN Err
       ELSE Ok(InsertHashes(EmptyMap, files, Split(output, "\n"), 0))

\* get_file_hashes(files); fails says that the subprocess fails.
get_file_hashes(ignored, fails, files) ==
    LET objects == Objects(ignored, files)
        output == output_to_trimmed_string(HashObject(Join(objects, "\n")))
    IN IF fails THEN Err
       ELSE Ok(InsertHashes(EmptyMap, objects, Split(output, "\n"), 0))

InitFileHashes ==
    /\ HasherIdle
    /\ NoGit
    /\ \E ignored \in SUBSET HashedFiles :
       \E fails \in BOOLEAN :
       \E files \in UNION { [1..n -> HashedFiles] : n \in 0..MaxFiles } :
            given = [ignored |-> ignored, fails |-> fails, files |-> files]
    /\ got = None

GetFileHashes ==
    /\ got = None
    /\ got' = Some(get_file_hashes(given.ignored, given.fails, given.files))
    /\ UNCHANGED <<hvars, gvars, records, touched, tried, given>>

NextFileHashes == GetFileHashes

SpecFileHashes == InitFileHashes /\ [][NextFileHashes]_vars

\* The input paths the ignore rules do not match, in input order, and the
\* lines the hashing command prints for them.
NotIgnored == SelectSeq(given.files, LAMBDA f : f \notin given.ignored)
OutputLines == [i \in 1..Len(NotIgnored) |-> HashOf(NotIgnored[i])]

\* C15: get_file_hashes returns no entry for an ignored path, and maps the
\* i-th non-ignored input path to the i-th hash line of the output of the
\* hashing command; for the empty list and for a list of ignored paths only
\* the map is empty.
C15_HashesAligned ==
    (IsSome(got) /\ Unwrap(got).ok) =>
        LET map == Unwrap(got).value
        IN /\ DOMAIN map \cap given.ignored = {}
           /\ DOMAIN map = RangeOf(NotIgnored)
           /\ \A i \in 1..Len(NotIgnored) : map[NotIgnored[i]] = OutputLines[i]

C15_Witness ==
    /\ IsSome(got)
    /\ Unwrap(got).ok
    /\ given.files = <<FileG, FileF, FileDQ>>
    /\ given.ignored = {FileG}
    /\ Unwrap(got).value = (FileF :> HashOf(FileF) @@ FileDQ :> HashOf(FileDQ))

(***************************************************************************)
(* git.rs: is_default_branch                                               *)
(***************************************************************************)
\* str::ends_with
EndsWith(value, suffix) ==
    /\ Len(suffix) <= Len(value)
    /\ SubSeq(value, Len(value) - Len(suffix) + 1, Len(value)) = suffix

\* The portion of a name after its last separator.
AfterLastSlash(value) ==
    LET last == CHOOSE i \in 1..Len(value) :
                    value[i] = "/" /\ \A j \in (i + 1)..Len(value) : value[j] # "/"
    IN SubSeq(value, last + 1, Len(value))

\* is_default_branch comparing the branch with the last segment only.
is_default_branch_last_segment(default_branch, branch) ==
    IF default_branch = branch THEN TRUE
    ELSE IF Contains(default_branch, "/")
    THEN AfterLastSlash(default_branch) = branch
    ELSE FALSE

\* is_default_branch(branch) of a Git whose default branch is default_branch.
is_default_branch(default_branch, branch) ==
    IF default_branch = branch THEN TRUE
    ELSE IF Contains(default_branch, "/")
    THEN EndsWith(default_branch, <<"/">> \o branch)
    ELSE FALSE

\* Branch names: remote and branch segments joined by separators.
BranchChars == {"/", "m"}
BranchNames == UNION { [1..n -> BranchChars] : n \in 0..MaxBranch }

InitDefaultBranch ==
    /\ HasherIdle
    /\ NoGit
    /\ \E d \in BranchNames, b \in BranchNames :
            given = [default_branch |-> d, branch |-> b]
    /\ got = None

IsDefaultBranch ==
    /\ got = None
    /\ got' = Some(is_default_branch(given.default_branch, given.branch))
    /\ UNCHANGED <<hvars, gvars, records, touched, tried, given>>

NextDefaultBranch == IsDefaultBranch

SpecDefaultBranch == InitDefaultBranch /\ [][NextDefaultBranch]_vars

\* C16 as stated: is_default_branch(name) is true exactly when name is the
\* default branch, or the default branch contains / and name is the portion
\* of it after the last /.
C16_LastSegmentOnly ==
    IsSome(got) =>
        (Unwrap(got) <=>
            \/ given.branch = given.default_branch
            \/ /\ Contains(given.default_branch, "/")
               /\ given.branch = AfterLastSlash(given.default_branch))

\* C16 amended: is_default_branch(name) is true exactly when name is the
\* default branch, or name is the portion of the default branch after any
\* one of its / characters, the last or an earlier one.
C16_AnySegmentSuffix ==
    IsSome(got) =>
        (Unwrap(got) <=>
            \/ given.branch = given.default_branch
            \/ \E i \in 1..Len(given.default_branch) :
                  /\ given.default_branch[i] = "/"
                  /\ given.branch =
                        SubSeq(given.default_branch, i + 1, Len(given.default_branch)))

C16_Witness ==
    /\ IsSome(got)
    /\ given.default_branch = <<"m", "/", "m", "/", "m">>
    /\ given.branch = <<"m", "/", "m">>
    /\ Unwrap(got) = TRUE

(***************************************************************************)
(* Properties of the between-revisions query                               *)
(***************************************************************************)
\* The merge-base command lines in the order base, origin/<base>,
\* upstream/<base>, and the hash each prints when it succeeds.
InOrder ==
    << MergeBaseCmd(BaseRevision),
       MergeBaseCmd(OriginOf(BaseRevision)),
       MergeBaseCmd(UpstreamOf(BaseRevision)) >>
HashIn == <<Hash1, Hash2, Hash3>>

\* C17: merge-base resolution tries base, origin/<base>, upstream/<base> in
\* that order, stops at the first candidate whose command succeeds and uses
\* its result without trying a later one, and when all three fail it uses
\* the literal base and returns no error.
C17_MergeBaseOrder ==
    tried # <<>> =>
        LET n == Len(tried) - 1
        IN /\ n \in 1..3
           /\ \A i \in 1..n : tried[i] = InOrder[i]
           /\ \A i \in 1..(n - 1) : ~repo[InOrder[i]].ok
           /\ repo[InOrder[n]].ok => tried[n + 1] = DiffCmd(HashIn[n])
           /\ ~repo[InOrder[n]].ok =>
                /\ n = 3
                /\ tried[n + 1] = DiffCmd(BaseRevision)
                /\ repo[DiffCmd(BaseRevision)].ok => Unwrap(touched).ok

\* The second candidate resolved: the third, which would resolve too, was
\* not tried.
C17_Witness ==
    /\ tried = <<InOrder[1], InOrder[2], DiffCmd(Hash2)>>
    /\ repo[InOrder[3]].ok
    /\ IsSome(touched)
    /\ Unwrap(touched).ok

\* The filename records of the diff output, each with the letter of the
\* status token of its entry: a token is followed by one filename record,
\* a copy or rename token by two.
RECURSIVE Named(_)
Named(recs) ==
    IF recs = <<>> THEN {}
    ELSE LET x == recs[1][1]
             n == IF x \in {"C", "R"} THEN 2 ELSE 1
         IN {<<x, recs[i]>> : i \in 2..(n + 1)}
                \cup Named(SubSeq(recs, n + 2, Len(recs)))

FilesUnder(letters) == {e[2] : e \in {d \in Named(records) : d[1] \in letters}}

\* C20: get_touched_files_between_revisions classifies each filename record
\* by the letter of the nearest preceding status token (A or C added, D
\* deleted, M or R modified, each of these staged too), puts every filename
\* record in all, reports no status token as a file, and leaves unstaged and
\* untracked empty.
C20_DiffClassification ==
    (IsSome(touched) /\ Unwrap(touched).ok) =>
        Unwrap(touched).value =
            TouchedFiles(FilesUnder({"A", "C"}),
                         {e[2] : e \in Named(records)},
                         FilesUnder({"D"}),
                         FilesUnder({"M", "R"}),
                         FilesUnder({"A", "C", "D", "M", "R"}),
                         {}, {})

(***************************************************************************)
(* Further properties of the hasher                                        *)
(***************************************************************************)
\* The keys of a map in strictly ascending order, the key at place i being
\* the one with i - 1 keys of the map below it, and the entries of the map
\* in that order, key then value.
Ascending(tree) ==
    [i \in 1..Cardinality(DOMAIN tree) |->
        CHOOSE k \in DOMAIN tree :
            Cardinality({o \in DOMAIN tree : LexLess(o, k)}) = i - 1]
EntriesOf(tree) ==
    LET keys == Ascending(tree)
    IN Flatten([i \in 1..Len(keys) |-> keys[i] \o tree[keys[i]]])

\* C21: the byte stream to_hash feeds to the digest is the concatenation,
\* in this order, of version, node_version, command, the elements of args,
\* of deps, the entries of env_vars, of input_hashes, the elements of
\* project_deps, the entries of package_dependencies,
\* package_dev_dependencies, package_peer_dependencies and
\* tsconfig_compiler_options, map entries key then value in ascending key
\* order, and nothing else.
C21_ByteStreamOrder ==
    nhash > 0 =>
        ret.sha256 =
            Flatten(<<h.version, h.node_version, h.command>> \o h.args \o h.deps)
            \o EntriesOf(h.env_vars)
            \o EntriesOf(h.input_hashes)
            \o Flatten(h.project_deps)
            \o EntriesOf(h.package_dependencies)
            \o EntriesOf(h.package_dev_dependencies)
            \o EntriesOf(h.package_peer_dependencies)
            \o EntriesOf(h.tsconfig_compiler_options)

\* A digest was taken of a hasher with two args, two deps, an input hash
\* and two package dependencies.
C21_Witness ==
    /\ nhash > 0
    /\ Len(h.args) = 2
    /\ Len(h.deps) = 2
    /\ h.target # <<>>
    /\ DOMAIN h.input_hashes # {}
    /\ Cardinality(DOMAIN h.package_dependencies) = 2

\* How many times x occurs in the list v.
Count(v, x) == Cardinality({i \in 1..Len(v) : v[i] = x})

\* C22: hash_args(extra) leaves the hasher as it was when extra is empty,
\* and else makes args the ascending list that holds every string as many
\* times as the args before and extra together, all other fields as they
\* were; args is in ascending order after any calls, and so is deps.
C22_ArgsSortedSum ==
    /\ IsSorted(h.args)
    /\ IsSorted(h.deps)
    /\ (N >= 1 /\ Last.op = "hash_args") =>
          /\ Last.arg = <<>> => h = Before1
          /\ [h EXCEPT !.args = <<>>] = [Before1 EXCEPT !.args = <<>>]
          /\ Len(h.args) = Len(Before1.args) + Len(Last.arg)
          /\ \A x \in RangeOf(h.args) \cup RangeOf(Before1.args) \cup RangeOf(Last.arg) :
                Count(h.args, x) = Count(Before1.args, x) + Count(Last.arg, x)

\* hash_args was called twice with the same two args after a task with args
\* and deps: each arg of the call is there twice.
C22_Witness ==
    /\ N = 3
    /\ log[1].op = "hash_task"
    /\ Len(log[1].arg.args) = 2
    /\ LastTwo("hash_args", "hash_args")
    /\ Last.arg = Prev.arg
    /\ Last.arg # <<>>
    /\ \A x \in RangeOf(Last.arg) : Count(h.args, x) >= 2
    /\ Len(h.args) = 6
    /\ Len(h.deps) = 2

(***************************************************************************)
(* git.rs: get_file_tree_hashes                                            *)
(***************************************************************************)
\* Iterator::last of a split, and the first and second piece of one; a
\* piece that is missing is the empty string (unwrap_or_default).
LastPart(parts) == parts[Len(parts)]
NextPart(parts, n) == IF n <= Len(parts) THEN parts[n] ELSE <<>>

\* One turn of the loop over the lines.
TreeLine(ignored, map, line) ==
    LET last_parts == Split(LastPart(Split(line, " ")), "\t")
        hash == NextPart(last_parts, 1)
        file == NextPart(last_parts, 2)
    IN IF hash # <<>> /\ file # <<>> /\ ~is_file_ignored(ignored, file)
       THEN MapInsert(map, file, hash)
       ELSE map

RECURSIVE TreeLines(_, _, _)
TreeLines(ignored, map, lines) ==
    IF lines = <<>> THEN map
    ELSE TreeLines(ignored, TreeLine(ignored, map, Head(lines)), Tail(lines))

\* What get_file_tree_hashes makes of the trimmed output of ls-tree.
ParseTree(ignored, output) ==
    IF output = <<>> THEN EmptyMap
    ELSE TreeLines(ignored, EmptyMap, Split(output, "\n"))

\* git ls-tree HEAD -r: one line <mode> <type> <hash>TAB<path> per file of
\* the tree. One of the files has a space in its name.
TreeFiles == {FileF, FileDQ, FileAB}
LsTreeLine(file) ==
    <<"1", "0", "0", "6", "4", "4", " ", "b", "l", "o", "b", " ">>
        \o HashOf(file) \o <<"\t">> \o file \o <<"\n">>
TreeLists ==
    { t \in UNION { [1..n -> TreeFiles] : n \in 0..MaxTree } :
        \A i \in 1..Len(t) : \A j \in (i + 1)..Len(t) : t[i] # t[j] }
LsTreeStdout(t) == Flatten([i \in 1..Len(t) |-> LsTreeLine(t[i])])

InitFileTree ==
    /\ HasherIdle
    /\ GitNew
    /\ QueryIdle
    /\ \E ignored \in SUBSET TreeFiles, t \in TreeLists :
        /\ given = [ignored |-> ignored, tree |-> t]
        /\ \E o \in {Err, Ok(LsTreeStdout(t))} :
                repo = [c \in CmdLines \cup {LsTreeCmd} |->
                            IF c = LsTreeCmd THEN o ELSE Err]
    /\ got = None

GetFileTreeHashes ==
    /\ LET r == RunCommandIn(cache, LsTreeCmd)
       IN /\ cache' = r.cache
          /\ got' = Some(IF r.result.ok
                         THEN Ok(ParseTree(given.ignored, r.result.value))
                         ELSE Err)
    /\ UNCHANGED <<hvars, records, touched, tried, given, repo, readers, writer, pc, cmd,
                   result, calls, late, first, returned, execs>>

NextFileTree == GetFileTreeHashes

SpecFileTree == InitFileTree /\ [][NextFileTree]_vars

\* C23: get_file_tree_hashes returns the entry path -> hash of every output
\* line <mode> <type> <hash>TAB<path> whose path is not ignored, whatever
\* the path, and no other entry; for an empty output it returns the empty
\* map and no error.
C23_EveryTreeLine ==
    (IsSome(got) /\ repo[LsTreeCmd].ok) =>
        /\ Unwrap(got).ok
        /\ Unwrap(got).value =
              [f \in RangeOf(given.tree) \ given.ignored |-> HashOf(f)]

(***************************************************************************)
(* Further properties of is_glob                                           *)
(***************************************************************************)
\* C24: for a text with none of * ? !, is_glob is true exactly when the
\* text holds a pair, { with } or [ with ], whose opening character is, at
\* its first occurrence, not immediately preceded by a backslash; a text
\* with one character of a pair only, or with the opener escaped, is no glob.
C24_PairsUnescaped ==
    (/\ IsSome(got)
     /\ \A c \in {"*", "?", "!"} : ~Contains(given, c))
    => (Unwrap(got) <=>
          \E pair \in {<<"{", "}">>, <<"[", "]">>} :
              /\ Contains(given, pair[1])
              /\ Contains(given, pair[2])
              /\ FirstUnescaped(given, pair[1]))

(***************************************************************************)
(* What the digest does not depend on                                      *)
(***************************************************************************)
\* The target identifiers a task can carry, and none.
TargetIds == {t.target : t \in Tasks} \cup {<<>>}

C25_EveryCallReturns ==
    /\ \A p \in Callers : (pc[p] # "idle") ~> (pc[p] = "idle")
    /\ [](\A p \in Callers : pc[p] \in {"write_wait", "exec"} => p \notin readers)

\* Every caller has called and returned, and the subprocess of one command
\* line ran twice: two calls went through the write lock for it.
C25_Witness ==
    /\ \A p \in Callers : pc[p] = "idle" /\ calls[p] >= 1
    /\ \E c \in CmdLines : execs[c] >= 2

====
